---------------------------- MODULE Spec2Model ----------------------------
(***************************************************************************)
(* Model of market_streamlit_app.py: one run of the Streamlit script, from *)
(* the sidebar inputs through fetch, empty-data guard, processing, plot    *)
(* and data preview, together with the helper functions fetch_data,        *)
(* generate_dummy_data and fit_trend_line.                                 *)
(*                                                                         *)
(* Dates are day numbers.  Prices are positive integers.  The regression   *)
(* is computed exactly: a fitted value is a numerator over the common      *)
(* denominator den = n*Sum(x^2) - Sum(x)^2 of the least-squares solution.  *)
(***************************************************************************)
EXTENDS Integers, Sequences, FiniteSets, TLC

\* ------------------------------------------------------------------------
\* Bounds of the model and constants of the program
\* ------------------------------------------------------------------------

\* Longest lookback period of the model, standing for the options
\* [30, 90, 180, 365] of the period selectbox; also the day number of "now".
MaxDays == 4

\* Prices range over 1..MaxVal.
MaxVal == 2

\* Forecast horizons 1..HorizonBound are explored next to the maximum one.
HorizonBound == 2

\* number_input(min_value=1, ...)
MIN_FORECAST_DAYS == 1

\* number_input(..., max_value=30, ...)
MAX_FORECAST_DAYS == 30

\* Bounds of the inputs of the fit when it is checked on its own.
FitMaxLen == 4

FitMaxVal == 3

\* The lookback periods offered by the sidebar (scaled down).
PeriodOptions == 2..MaxDays

\* The forecast horizons offered by the sidebar.
HorizonOptions == (MIN_FORECAST_DAYS..HorizonBound) \cup {MAX_FORECAST_DAYS}

Today == MaxDays

\* ------------------------------------------------------------------------
\* Sequences
\* ------------------------------------------------------------------------

Has(s, tag) == \E i \in 1..Len(s) : s[i] = tag

RECURSIVE SumSeq(_)
SumSeq(s) == IF Len(s) = 0 THEN 0 ELSE s[1] + SumSeq(Tail(s))

\* np.arange(n): the positions 0..n-1
arange(n) == [i \in 1..n |-> i - 1]

\* data.iloc[::-1]
Reverse_Identity(s) == s

Reverse(s) == [i \in 1..Len(s) |-> s[Len(s) + 1 - i]]

\* data.empty
IsEmpty_Never(s) == FALSE

IsEmpty(s) == Len(s) = 0

Dates(s) == [i \in 1..Len(s) |-> s[i].date]

Values(s) == [i \in 1..Len(s) |-> s[i].val]

\* ------------------------------------------------------------------------
\* The market-data provider (yf.download) and fetch_data
\* ------------------------------------------------------------------------

\* A row of the provider's frame: a date and a Close that may be null.
Row(d, c) == [date |-> d, close |-> c, isnull |-> FALSE]

NullRow(d) == [date |-> d, close |-> 0, isnull |-> TRUE]

\* The frames the provider can return for the days lo..hi: for each day no
\* row, a row with a null Close, or a row with a price; dates ascending.
RECURSIVE FramesOver(_, _)
FramesOver(lo, hi) ==
    IF lo > hi THEN {<<>>}
    ELSE LET rest == FramesOver(lo + 1, hi)
             here == {NullRow(lo)} \cup {Row(lo, c) : c \in 1..MaxVal}
         IN  rest \cup {<<r>> \o f : r \in here, f \in rest}

\* What yf.download(symbol, period=f"{days}d", interval="1d") can do: raise,
\* return a frame without a Close column, or return a frame (maybe empty).
ProviderOutcomes(d) ==
    {[kind |-> "raises", rows |-> <<>>], [kind |-> "malformed", rows |-> <<>>]}
        \cup {[kind |-> "frame", rows |-> f] : f \in FramesOver(Today - d + 1, Today)}

NotCalled == [kind |-> "not_called", rows |-> <<>>]

\* data['Close'].dropna(): the rows with a Close, in order
RECURSIVE dropna(_)
dropna(rows) ==
    IF Len(rows) = 0 THEN <<>>
    ELSE IF rows[1].isnull THEN dropna(Tail(rows))
         ELSE <<[date |-> rows[1].date, val |-> rows[1].close]>> \o dropna(Tail(rows))

\* fetch_data without its try/except: a provider failure escapes.
fetch_data_NoCatch(outcome) ==
    IF outcome.kind \in {"raises", "malformed"}
    THEN [raised |-> TRUE, series |-> <<>>, logs |-> <<"debug_fetching">>]
    ELSE IF Len(outcome.rows) = 0
         THEN [raised |-> FALSE, series |-> <<>>,
               logs |-> <<"debug_fetching", "error_no_data">>]
         ELSE [raised |-> FALSE, series |-> dropna(outcome.rows),
               logs |-> <<"debug_fetching", "debug_fetched">>]

\* fetch_data(symbol, days), given what the provider does: the series it
\* returns, what it logs, and whether an exception leaves it.
fetch_data(outcome) ==
    IF outcome.kind \in {"raises", "malformed"}
    THEN [raised |-> FALSE, series |-> <<>>,
          logs |-> <<"debug_fetching", "error_fetch">>]
    ELSE IF Len(outcome.rows) = 0
         THEN [raised |-> FALSE, series |-> <<>>,
               logs |-> <<"debug_fetching", "error_no_data">>]
         ELSE [raised |-> FALSE, series |-> dropna(outcome.rows),
               logs |-> <<"debug_fetching", "debug_fetched">>]

\* pd.date_range(end=now, periods=days, freq="D") with the drawn values
generate_dummy_data_Short(d, vals) ==
    [i \in 1..(d - 1) |-> [date |-> Today - d + 1 + i, val |-> vals[i]]]

generate_dummy_data(d, vals) ==
    [i \in 1..d |-> [date |-> Today - d + i, val |-> vals[i]]]

\* ------------------------------------------------------------------------
\* fit_trend_line
\* ------------------------------------------------------------------------

Products(x, y) == [i \in 1..Len(x) |-> x[i] * y[i]]

\* np.polyfit without the column scaling: the minimum-norm solution, which
\* for a single point at x = 0 is the flat line through it.
polyfit_NoScale(x, y) ==
    LET n   == Len(x)
        sx  == SumSeq(x)
        sxx == SumSeq(Products(x, x))
        sy  == SumSeq(y)
        sxy == SumSeq(Products(x, y))
    IN  IF n * sxx - sx * sx = 0
        THEN [ok |-> TRUE, slope |-> 0, intercept |-> sy, den |-> n]
        ELSE [ok |-> TRUE, slope |-> n * sxy - sx * sy,
              intercept |-> sy * sxx - sx * sxy, den |-> n * sxx - sx * sx]

\* np.polyfit(x, y, 1).  The columns of the Vandermonde matrix are divided
\* by their norms sqrt(Sum(x^2)) and sqrt(n); with x = arange(n) the first is
\* zero exactly when n = 1, the quotient is NaN and lstsq raises LinAlgError.
\* Otherwise the least-squares line: slope/den and intercept/den.
polyfit(x, y) ==
    LET n   == Len(x)
        sx  == SumSeq(x)
        sxx == SumSeq(Products(x, x))
        sy  == SumSeq(y)
        sxy == SumSeq(Products(x, y))
    IN  IF n = 0 \/ Len(y) # n \/ sxx = 0
        THEN [ok |-> FALSE, slope |-> 0, intercept |-> 0, den |-> 1]
        ELSE [ok |-> TRUE, slope |-> n * sxy - sx * sy,
              intercept |-> sy * sxx - sx * sxy, den |-> n * sxx - sx * sx]

\* np.polyval(coeffs, x), as numerators over coeffs.den
polyval(coeffs, x) == [i \in 1..Len(x) |-> coeffs.slope * x[i] + coeffs.intercept]

\* The (None, None, None, None) of fit_trend_line, and the state before the call
FitNone ==
    [called |-> TRUE, ok |-> FALSE, x |-> <<>>, trend_line |-> <<>>,
     x_future |-> <<>>, trend_future |-> <<>>, den |-> 1]

FitUnset == [FitNone EXCEPT !.called = FALSE]

fit_trend_line(dates, values, h) ==
    LET x      == arange(Len(dates))
        coeffs == polyfit(x, values)
        x_fut  == arange(Len(dates) + h)
    IN  IF coeffs.ok
        THEN [called |-> TRUE, ok |-> TRUE, x |-> x,
              trend_line |-> polyval(coeffs, x), x_future |-> x_fut,
              trend_future |-> polyval(coeffs, x_fut), den |-> coeffs.den]
        ELSE FitNone

\* trend_future[:forecast_days]
ForecastTail_Head(tf, h) == SubSeq(tf, 1, IF h < Len(tf) THEN h ELSE Len(tf))

\* trend_future[-forecast_days:]
ForecastTail(tf, h) ==
    SubSeq(tf, (IF h < Len(tf) THEN Len(tf) - h ELSE 0) + 1, Len(tf))

\* dates[0] + timedelta(days=i) for i in range(0, forecast_days)
FutureDates_FromZero(dates, h) == [i \in 1..h |-> dates[1] + i - 1]

\* [dates[0] + timedelta(days=i) for i in range(1, forecast_days + 1)]
FutureDates(dates, h) == [i \in 1..h |-> dates[1] + i]

\* ------------------------------------------------------------------------
\* The tables of the data preview
\* ------------------------------------------------------------------------

\* df = pd.DataFrame({index_choice: data}, index=data.index); df["Type"] = "Actual"
ActualRows(s) ==
    [i \in 1..Len(s) |-> [date |-> s[i].date, num |-> s[i].val, den |-> 1,
                          Type |-> "Actual"]]

\* forecast_df: trend_future[-forecast_days:] tagged Forecast, indexed by future_dates
ForecastRows(f, fdates, h) ==
    LET tail == ForecastTail(f.trend_future, h)
    IN  [i \in 1..Len(fdates) |-> [date |-> fdates[i], num |-> tail[i],
                                   den |-> f.den, Type |-> "Forecast"]]

\* highlight_latest: the rows whose index equals df.index[0]
HighlightedRows(s) == {i \in 1..Len(s) : s[i].date = s[1].date}

\* "if trend_line is None" / "if trend_future is not None", taken as always true
TrendAvailable_Always(f) == TRUE

\* "if trend_line is None" (line 117) and "if trend_future is not None" (line 152)
TrendAvailable(f) == f.ok

\* st.stop() after a plotting error, left out
AfterPlotError_Continue == "preview"

\* st.stop() at the end of the plot stage's except block
AfterPlotError == "stopped"

\* ------------------------------------------------------------------------
\* State
\* ------------------------------------------------------------------------

VARIABLES
    index_choice,     \* sidebar radio: "NIFTY" or "BANKNIFTY"
    days,             \* sidebar selectbox: lookback period
    forecast_days,    \* sidebar number_input: forecast horizon
    debug_mode,       \* sidebar checkbox
    use_dummy_data,   \* sidebar checkbox
    pc,               \* position of the script run
    provider,         \* what yf.download did in this run
    data,             \* the series: a sequence of [date, val]
    fit,              \* x, trend_line, x_future, trend_future of line 116
    future_dates,     \* line 120
    chart,            \* the figure handed to st.pyplot
    table,            \* the styled frame handed to st.dataframe
    forecast_df,      \* line 153
    combined_df,      \* line 158, the content of the CSV
    ui,               \* what Streamlit has rendered, in order
    log,              \* what was written to the logger, in order
    calls             \* how often each helper and the provider were called

vars == <<index_choice, days, forecast_days, debug_mode, use_dummy_data, pc,
          provider, data, fit, future_dates, chart, table, forecast_df,
          combined_df, ui, log, calls>>

inputs == <<index_choice, days, forecast_days, debug_mode, use_dummy_data>>

NoChart ==
    [shown |-> FALSE, series |-> <<>>, highlight |-> <<>>, trend |-> FALSE,
     forecast |-> FALSE, forecast_dates |-> <<>>]

NoTable == [shown |-> FALSE, rows |-> <<>>, highlighted |-> {}]

\* symbol = "^NSEI" if index_choice == "NIFTY" else "^NSEBANK"
symbol == IF index_choice = "NIFTY" THEN "^NSEI" ELSE "^NSEBANK"

\* The debug line each stage adds to its message in debug mode
Debug(tag) == IF debug_mode THEN <<tag>> ELSE <<>>

Init ==
    /\ index_choice \in {"NIFTY", "BANKNIFTY"}
    /\ days \in PeriodOptions
    /\ forecast_days \in HorizonOptions
    /\ debug_mode \in BOOLEAN
    /\ use_dummy_data \in BOOLEAN
    /\ pc = "fetch"
    /\ provider = NotCalled
    /\ data = <<>>
    /\ fit = FitUnset
    /\ future_dates = <<>>
    /\ chart = NoChart
    /\ table = NoTable
    /\ forecast_df = <<>>
    /\ combined_df = <<>>
    /\ ui = <<"title">>
    /\ log = <<>>
    /\ calls = [fetch_data |-> 0, provider |-> 0, generate_dummy_data |-> 0]

\* ------------------------------------------------------------------------
\* The stages of the script
\* ------------------------------------------------------------------------

\* Lines 71-73: the synthetic branch
FetchDummy ==
    /\ pc = "fetch"
    /\ use_dummy_data
    /\ \E vals \in [1..days -> 1..MaxVal] :
           data' = generate_dummy_data(days, vals)
    /\ ui' = ui \o <<"warning_dummy">>
    /\ log' = log \o <<"debug_dummy">>
    /\ calls' = [calls EXCEPT !.generate_dummy_data = @ + 1]
    /\ pc' = "guard"
    /\ UNCHANGED <<inputs, provider, fit, future_dates, chart, table,
                   forecast_df, combined_df>>

\* Lines 74-75: the call of fetch_data, which calls the provider
FetchReal ==
    /\ pc = "fetch"
    /\ ~use_dummy_data
    /\ \E outcome \in ProviderOutcomes(days) :
           LET r == fetch_data(outcome)
           IN  /\ provider' = outcome
               /\ log' = log \o r.logs
               /\ IF r.raised
                  THEN pc' = "crashed" /\ data' = data
                  ELSE pc' = "guard" /\ data' = r.series
    /\ calls' = [calls EXCEPT !.fetch_data = @ + 1, !.provider = @ + 1]
    /\ UNCHANGED <<inputs, fit, future_dates, chart, table, forecast_df,
                   combined_df, ui>>

\* Lines 77-86: the empty-data guard and the debug lines after it
EmptyGuard ==
    /\ pc = "guard"
    /\ IF IsEmpty(data)
       THEN /\ ui' = ui \o <<"error_no_data">> \o Debug("debug_fetch_failed")
            /\ pc' = "stopped"
       ELSE /\ ui' = ui \o Debug("debug_data_info")
            /\ pc' = "process"
    /\ UNCHANGED <<inputs, provider, data, fit, future_dates, chart, table,
                   forecast_df, combined_df, log, calls>>

\* Lines 89-98: rebuild the series, reverse it; any exception stops the run
ProcessData ==
    /\ pc = "process"
    /\ \E raises \in BOOLEAN :
           IF raises
           THEN /\ log' = log \o <<"error_processing">>
                /\ ui' = ui \o <<"error_processing">> \o Debug("debug_processing")
                /\ pc' = "stopped"
                /\ data' = data
           ELSE /\ data' = Reverse(data)
                /\ pc' = "plot"
                /\ UNCHANGED <<ui, log>>
    /\ UNCHANGED <<inputs, provider, fit, future_dates, chart, table,
                   forecast_df, combined_df, calls>>

\* The figure of lines 104-123: the series, the scattered latest point
\* (dates[0], data.iloc[0]), and the trend and forecast lines when fitted
Figure(s, f, fdates) ==
    [shown |-> TRUE, series |-> s, highlight |-> <<s[1]>>,
     trend |-> TrendAvailable(f), forecast |-> TrendAvailable(f),
     forecast_dates |-> IF TrendAvailable(f) THEN Dates(s) \o fdates ELSE <<>>]

\* Lines 103-137.  An exception can leave the drawing calls before the fit
\* ("early": lines 104-113, and dates[0] of an empty series) or after it
\* ("late": lines 120-131); st.pyplot is the last call of the block.
Plot ==
    /\ pc = "plot"
    /\ \E failure \in {"none", "early", "late"} :
           IF failure = "early" \/ Len(data) = 0
           THEN /\ log' = log \o <<"error_plot">>
                /\ ui' = ui \o <<"error_plot">> \o Debug("debug_plot")
                /\ pc' = AfterPlotError
                /\ UNCHANGED <<fit, future_dates, chart>>
           ELSE LET f      == fit_trend_line(Dates(data), Values(data), forecast_days)
                    fdates == IF TrendAvailable(f)
                              THEN FutureDates(Dates(data), forecast_days)
                              ELSE future_dates
                    flog   == IF f.ok THEN <<>> ELSE <<"error_fit">>
                    warn   == IF TrendAvailable(f) THEN <<>> ELSE <<"warning_no_trend">>
                IN  /\ fit' = f
                    /\ future_dates' = fdates
                    /\ IF failure = "late"
                       THEN /\ log' = log \o flog \o <<"error_plot">>
                            /\ ui' = ui \o warn \o <<"error_plot">> \o Debug("debug_plot")
                            /\ pc' = AfterPlotError
                            /\ chart' = chart
                       ELSE /\ log' = log \o flog
                            /\ ui' = ui \o warn \o <<"chart">>
                            /\ pc' = "preview"
                            /\ chart' = Figure(data, f, fdates)
    /\ UNCHANGED <<inputs, provider, data, table, forecast_df, combined_df, calls>>

\* What the except block of the data preview renders and logs
PreviewError == <<"error_preview">> \o Debug("debug_preview")

\* Lines 142-176.  An exception can leave the block before the table is
\* displayed ("frame": lines 145-150), while the forecast table is built
\* ("assemble": lines 153-161) or while the CSV is offered ("download":
\* lines 163-169).  The block does not stop the run.
Preview ==
    /\ pc = "preview"
    /\ \E failure \in {"none", "frame", "assemble", "download"} :
           /\ failure \in {"assemble", "download"} => TrendAvailable(fit)
           /\ IF failure = "frame"
              THEN /\ ui' = ui \o <<"subheader_preview">> \o PreviewError
                   /\ log' = log \o <<"error_preview">>
                   /\ UNCHANGED <<table, forecast_df, combined_df>>
              ELSE /\ table' = [shown |-> TRUE, rows |-> data,
                                highlighted |-> HighlightedRows(data)]
                   /\ IF ~TrendAvailable(fit)
                      THEN /\ ui' = ui \o <<"subheader_preview", "table",
                                            "warning_no_forecast">>
                           /\ UNCHANGED <<forecast_df, combined_df, log>>
                      ELSE IF failure = "assemble"
                      THEN /\ ui' = ui \o <<"subheader_preview", "table">>
                                       \o PreviewError
                           /\ log' = log \o <<"error_preview">>
                           /\ UNCHANGED <<forecast_df, combined_df>>
                      ELSE LET fdf == ForecastRows(fit, future_dates, forecast_days)
                           IN  /\ forecast_df' = fdf
                               /\ combined_df' = ActualRows(data) \o fdf
                               /\ IF failure = "download"
                                  THEN /\ ui' = ui \o <<"subheader_preview", "table",
                                                        "forecast_header",
                                                        "forecast_table">>
                                                   \o PreviewError
                                       /\ log' = log \o <<"error_preview">>
                                  ELSE /\ ui' = ui \o <<"subheader_preview", "table",
                                                        "forecast_header",
                                                        "forecast_table", "download">>
                                       /\ log' = log
    /\ pc' = "logs"
    /\ UNCHANGED <<inputs, provider, data, fit, future_dates, chart, calls>>

\* Lines 179-185: the log file shown in debug mode, absent or present
DebugLogs ==
    /\ pc = "logs"
    /\ IF debug_mode
       THEN \E found \in BOOLEAN :
                ui' = ui \o <<"debug_logs_header",
                              IF found THEN "debug_log_text" ELSE "debug_log_missing">>
       ELSE ui' = ui
    /\ pc' = "done"
    /\ UNCHANGED <<inputs, provider, data, fit, future_dates, chart, table,
                   forecast_df, combined_df, log, calls>>

Next ==
    \/ FetchDummy
    \/ FetchReal
    \/ EmptyGuard
    \/ ProcessData
    \/ Plot
    \/ Preview
    \/ DebugLogs

Spec == Init /\ [][Next]_vars

\* ------------------------------------------------------------------------
\* fit_trend_line and the forecast slice on their own
\* ------------------------------------------------------------------------

\* The value sequences the fit is applied to: every sequence of 1..FitMaxLen
\* prices in 1..FitMaxVal, and the linear series 1, 2, 3, 4, 5.
FitInputs ==
    UNION {[1..n -> 1..FitMaxVal] : n \in 1..FitMaxLen} \cup {<<1, 2, 3, 4, 5>>}

\* A series with the given values, latest first, as the fit call site has it
SeriesOf(vals) ==
    [i \in 1..Len(vals) |-> [date |-> Len(vals) + 1 - i, val |-> vals[i]]]

InitFit ==
    /\ index_choice = "NIFTY"
    /\ days = MaxDays
    /\ forecast_days \in MIN_FORECAST_DAYS..MAX_FORECAST_DAYS
    /\ debug_mode = FALSE
    /\ use_dummy_data = FALSE
    /\ pc = "fit_input"
    /\ provider = NotCalled
    /\ \E vals \in FitInputs : data = SeriesOf(vals)
    /\ fit = FitUnset
    /\ future_dates = <<>>
    /\ chart = NoChart
    /\ table = NoTable
    /\ forecast_df = <<>>
    /\ combined_df = <<>>
    /\ ui = <<>>
    /\ log = <<>>
    /\ calls = [fetch_data |-> 0, provider |-> 0, generate_dummy_data |-> 0]

\* Line 116, line 120 and lines 153-156 applied to the drawn input
FitStep ==
    /\ pc = "fit_input"
    /\ LET f == fit_trend_line(Dates(data), Values(data), forecast_days)
       IN  /\ fit' = f
           /\ IF TrendAvailable(f)
              THEN LET fdates == FutureDates(Dates(data), forecast_days)
                   IN  /\ future_dates' = fdates
                       /\ forecast_df' = ForecastRows(f, fdates, forecast_days)
              ELSE UNCHANGED <<future_dates, forecast_df>>
           /\ log' = IF f.ok THEN log ELSE log \o <<"error_fit">>
    /\ pc' = "fit_output"
    /\ UNCHANGED <<inputs, provider, data, chart, table, combined_df, ui, calls>>

NextFit == FitStep

SpecFit == InitFit /\ [][NextFit]_vars

\* ------------------------------------------------------------------------
\* Vocabulary of the properties
\* ------------------------------------------------------------------------

Terminal == pc \in {"done", "stopped", "crashed"}

\* The elements of the stages after the empty-data guard
LaterStageOutput ==
    {"error_processing", "warning_no_trend", "chart", "error_plot",
     "subheader_preview", "table", "warning_no_forecast", "forecast_header",
     "forecast_table", "download", "error_preview"}

\* The elements of the data preview
PreviewOutput ==
    {"subheader_preview", "table", "warning_no_forecast", "forecast_header",
     "forecast_table", "download", "error_preview"}

HasAny(s, tags) == \E i \in 1..Len(s) : s[i] \in tags

\* The observation of a non-empty series with the greatest date
LatestPoint(s) ==
    CHOOSE p \in {s[i] : i \in 1..Len(s)} : \A i \in 1..Len(s) : s[i].date <= p.date

\* The last element rendered, debug lines set aside
LastMessage ==
    LET shown == SelectSeq(ui, LAMBDA t : t \notin {"debug_fetch_failed",
                     "debug_processing", "debug_plot", "debug_preview"})
    IN  shown[Len(shown)]

\* ------------------------------------------------------------------------
\* C1
\* ------------------------------------------------------------------------

StageFailed ==
    HasAny(ui, {"error_no_data", "error_processing", "error_plot", "error_preview"})

\* C1 as stated: a run in which any stage failed (empty fetch, processing,
\* plotting or data preview) ends with no chart rendered, an explanatory
\* message shown, no table and no CSV download: never a partial render.
C1_NoPartialRender ==
    (Terminal /\ StageFailed) =>
        /\ ~chart.shown
        /\ ~Has(ui, "chart")
        /\ ~table.shown
        /\ ~Has(ui, "download")

\* C1 as amended: an empty fetch, a processing failure or a plotting failure
\* stops the run at once with its message as the last element, no chart, no
\* table and no download; a data-preview failure happens after the chart was
\* rendered, leaves it (and whatever the preview had displayed) in place,
\* shows its message, offers no download and lets the run go on to its end.
C1_FailureOutcome ==
    /\ HasAny(ui, {"error_no_data", "error_processing", "error_plot"}) =>
           /\ pc = "stopped"
           /\ LastMessage \in {"error_no_data", "error_processing", "error_plot"}
           /\ ~chart.shown /\ ~table.shown
           /\ ~HasAny(ui, {"chart"} \cup PreviewOutput)
           /\ forecast_df = <<>> /\ combined_df = <<>>
    /\ Has(ui, "error_preview") =>
           /\ pc \in {"logs", "done"}
           /\ chart.shown /\ Has(ui, "chart")
           /\ ~Has(ui, "download")
    /\ pc = "stopped" => StageFailed

C1_Witness ==
    /\ pc = "stopped"
    /\ Has(ui, "error_plot")
    /\ fit.called /\ fit.ok
    /\ ~chart.shown

\* ------------------------------------------------------------------------
\* C2
\* ------------------------------------------------------------------------

\* C2: when the series obtained by the fetch step is empty, the run halts
\* with the "No data available" message as its last message, and no
\* processing, fit, plot, preview or download has happened, whatever the
\* index, period, horizon and debug flag; and the message is shown only then.
C2_EmptyFetchHalts ==
    /\ (pc \notin {"fetch", "guard"} /\ Len(data) = 0) =>
           /\ pc = "stopped"
           /\ LastMessage = "error_no_data"
           /\ ~HasAny(ui, LaterStageOutput)
           /\ ~fit.called /\ ~chart.shown /\ ~table.shown
           /\ forecast_df = <<>> /\ combined_df = <<>>
           /\ ~HasAny(log, {"error_processing", "error_plot", "error_fit",
                            "error_preview"})
    /\ Has(ui, "error_no_data") => Len(data) = 0

C2_Witness ==
    /\ pc = "stopped"
    /\ Len(data) = 0
    /\ provider.kind = "frame" /\ Len(provider.rows) > 0
    /\ debug_mode
    /\ forecast_days = MAX_FORECAST_DAYS

\* ------------------------------------------------------------------------
\* C3
\* ------------------------------------------------------------------------

\* C3: fetch_data never lets an exception out; when the provider raised or
\* returned no rows the returned series is empty and the last thing logged
\* is an error; a row with a null Close never appears in the returned
\* series, and every returned point is a row the provider gave.
C3_FetchNeverRaises ==
    /\ pc # "crashed"
    /\ (pc = "guard" /\ ~use_dummy_data) =>
           /\ calls.fetch_data = 1
           /\ (provider.kind # "frame" \/ Len(provider.rows) = 0) =>
                  /\ data = <<>>
                  /\ Len(log) > 0
                  /\ log[Len(log)] \in {"error_fetch", "error_no_data"}
           /\ \A j \in 1..Len(provider.rows) :
                  provider.rows[j].isnull =>
                      \A i \in 1..Len(data) : data[i].date # provider.rows[j].date
           /\ \A i \in 1..Len(data) :
                  \E j \in 1..Len(provider.rows) :
                      /\ ~provider.rows[j].isnull
                      /\ provider.rows[j].date = data[i].date
                      /\ provider.rows[j].close = data[i].val

C3_Witness ==
    /\ pc = "guard"
    /\ provider.kind = "raises"
    /\ data = <<>>
    /\ Has(log, "error_fetch")

\* ------------------------------------------------------------------------
\* C4
\* ------------------------------------------------------------------------

\* C4: a fit attempted on fewer than 2 points returns the all-None result
\* and logs the error; no forecast rows, no combined table and no trend or
\* forecast line come out of it.
C4_FitNeedsTwoPoints ==
    (fit.called /\ Len(data) < 2) =>
        /\ fit = FitNone
        /\ Has(log, "error_fit")
        /\ future_dates = <<>> /\ forecast_df = <<>> /\ combined_df = <<>>
        /\ ~HasAny(ui, {"forecast_header", "forecast_table", "download"})
        /\ ~chart.trend /\ ~chart.forecast

C4_Witness ==
    /\ pc = "done"
    /\ fit.called
    /\ Len(data) = 1
    /\ chart.shown
    /\ Has(ui, "warning_no_forecast")

\* ------------------------------------------------------------------------
\* C5
\* ------------------------------------------------------------------------

FitFailed == fit.called /\ ~fit.ok

\* C5: a failed fit does not abort the run.  Unless the plotting itself
\* raises, the chart is rendered with the series and the latest point
\* highlighted, without trend or forecast line, after the warning; unless
\* the preview itself raises, the table of the actual data is displayed; and
\* no forecast table and no download is ever produced.
C5_FitFailureDegrades ==
    FitFailed =>
        /\ Has(ui, "warning_no_trend")
        /\ ~HasAny(ui, {"forecast_header", "forecast_table", "download"})
        /\ forecast_df = <<>> /\ combined_df = <<>>
        /\ ~Has(ui, "error_plot") =>
               /\ pc \in {"preview", "logs", "done"}
               /\ chart.shown /\ Has(ui, "chart")
               /\ chart.series = data
               /\ chart.highlight = <<data[1]>>
               /\ ~chart.trend /\ ~chart.forecast
        /\ (pc \in {"logs", "done"} /\ ~Has(ui, "error_preview")) =>
               /\ table.shown /\ Has(ui, "table")
               /\ table.rows = data
               /\ Has(ui, "warning_no_forecast")

C5_Witness ==
    /\ pc = "done"
    /\ FitFailed
    /\ chart.shown /\ ~chart.trend
    /\ table.shown
    /\ ~Has(ui, "download")

\* ------------------------------------------------------------------------
\* C6
\* ------------------------------------------------------------------------

\* The forecast values of the table, as numerators over fit.den
ForecastNums == [k \in 1..Len(forecast_df) |-> forecast_df[k].num]

\* den times the residual of the fitted value at each observed position
Residuals(tl, y, den) == [i \in 1..Len(y) |-> tl[i] - den * y[i]]

\* C6: for n >= 2 values and every horizon h, the fitted values have length
\* n and are the least-squares line at positions 0..n-1 (they lie on one
\* line, and their residuals sum to zero and are orthogonal to the
\* positions); the forecast values of the table have length h and are that
\* line at positions n..n+h-1, beyond every observed position; and for
\* 1, 2, 3, 4, 5 with h = 3 they are 1, 2, 3, 4, 5 and 6, 7, 8.
C6_FitAndForecastValues ==
    (pc = "fit_output" /\ Len(data) >= 2) =>
        LET y    == Values(data)
            n    == Len(y)
            h    == forecast_days
            tl   == fit.trend_line
            den  == fit.den
            step == tl[2] - tl[1]
            res  == Residuals(tl, y, den)
        IN  /\ fit.ok /\ den > 0
            /\ Len(tl) = n
            /\ \A i \in 1..n : tl[i] = tl[1] + (i - 1) * step
            /\ SumSeq(res) = 0
            /\ SumSeq(Products(arange(n), res)) = 0
            /\ Len(fit.trend_future) = n + h
            /\ Len(forecast_df) = h
            /\ \A k \in 1..h :
                   /\ ForecastNums[k] = tl[1] + (n + k - 1) * step
                   /\ forecast_df[k].den = den
                   /\ n + k - 1 > fit.x[n]
            /\ (y = <<1, 2, 3, 4, 5>> /\ h = 3) =>
                   /\ tl = [i \in 1..5 |-> den * i]
                   /\ ForecastNums = <<6 * den, 7 * den, 8 * den>>

C6_Witness ==
    /\ pc = "fit_output"
    /\ Values(data) = <<1, 2, 3, 4, 5>>
    /\ forecast_days = 3
    /\ fit.ok
    /\ ForecastNums = <<6 * fit.den, 7 * fit.den, 8 * fit.den>>

\* ------------------------------------------------------------------------
\* C7
\* ------------------------------------------------------------------------

\* C7: in a run that offers the download, the combined table has n + h
\* rows; the first n are Actual, in strictly descending date order; the
\* last h are Forecast, in strictly ascending date order, the k-th dated k
\* days after the latest Actual date; every Type is Actual or Forecast.
C7_CombinedTable ==
    Has(ui, "download") =>
        LET n      == Len(data)
            h      == forecast_days
            latest == LatestPoint(data).date
        IN  /\ Len(combined_df) = n + h
            /\ \A i \in 1..n :
                   /\ combined_df[i].Type = "Actual"
                   /\ combined_df[i].date = data[i].date
                   /\ combined_df[i].num = data[i].val * combined_df[i].den
            /\ \A i \in 1..(n - 1) : combined_df[i].date > combined_df[i + 1].date
            /\ \A k \in 1..h :
                   /\ combined_df[n + k].Type = "Forecast"
                   /\ combined_df[n + k].date = latest + k
            /\ \A k \in 1..(h - 1) :
                   combined_df[n + k].date < combined_df[n + k + 1].date
            /\ \A i \in 1..Len(combined_df) :
                   combined_df[i].Type \in {"Actual", "Forecast"}

C7_Witness ==
    /\ pc = "done"
    /\ Has(ui, "download")
    /\ Len(data) = 3
    /\ forecast_days = 2
    /\ Len(combined_df) = 5

\* ------------------------------------------------------------------------
\* C8
\* ------------------------------------------------------------------------

\* C8: whenever the chart is rendered its highlighted point, and whenever
\* the table is displayed its highlighted row, is the observation with the
\* greatest date of the series; exactly one row of the table is highlighted.
C8_HighlightIsLatest ==
    /\ chart.shown =>
           /\ chart.series = data
           /\ chart.highlight = <<LatestPoint(data)>>
    /\ table.shown =>
           /\ table.rows = data
           /\ Cardinality(table.highlighted) = 1
           /\ \A i \in table.highlighted : table.rows[i] = LatestPoint(data)

C8_Witness ==
    /\ chart.shown
    /\ table.shown
    /\ Len(data) = 3
    /\ table.highlighted = {1}
    /\ data[1].date > data[3].date

\* ------------------------------------------------------------------------
\* C9
\* ------------------------------------------------------------------------

\* C9: with the synthetic option neither fetch_data nor the provider is
\* called, and the injected series has exactly `days` points on consecutive
\* days; without it generate_dummy_data is never called.
C9_SyntheticBypassesFetch ==
    /\ use_dummy_data =>
           /\ calls.fetch_data = 0 /\ calls.provider = 0
           /\ provider = NotCalled
           /\ pc # "fetch" =>
                  /\ calls.generate_dummy_data = 1
                  /\ Len(data) = days
           /\ pc = "guard" =>
                  \A i \in 1..(Len(data) - 1) : data[i + 1].date = data[i].date + 1
    /\ ~use_dummy_data =>
           /\ calls.generate_dummy_data = 0
           /\ ~Has(log, "debug_dummy")
           /\ pc # "fetch" => calls.fetch_data = 1

C9_Witness ==
    /\ use_dummy_data
    /\ pc = "guard"
    /\ days = MaxDays
    /\ Len(data) = MaxDays
    /\ calls.generate_dummy_data = 1

\* ------------------------------------------------------------------------
\* C10
\* ------------------------------------------------------------------------

\* The series (latest first) rises by the same positive step on each of its
\* consecutive days
RisingLinear(s) ==
    /\ Len(s) >= 2
    /\ s[1].val > s[2].val
    /\ \A i \in 1..(Len(s) - 1) :
           /\ s[i].date = s[i + 1].date + 1
           /\ s[i].val - s[i + 1].val = s[1].val - s[2].val

\* C10: for a series that rises linearly with the date, every Forecast row
\* lies above the latest Actual value, and the row dated k days after the
\* latest date is the chronological line k steps past the latest point.
C10_ForecastExtrapolatesForward ==
    (Has(ui, "download") /\ RisingLinear(data)) =>
        LET latest == LatestPoint(data)
            step   == data[1].val - data[2].val
        IN  \A i \in 1..Len(combined_df) :
                combined_df[i].Type = "Forecast" =>
                    /\ combined_df[i].num > latest.val * combined_df[i].den
                    /\ combined_df[i].num =
                           (latest.val + (combined_df[i].date - latest.date) * step)
                               * combined_df[i].den

=============================================================================
